---- MODULE Spec2Model ----
(***************************************************************************)
(* Model of src/main.py: a FastAPI / command-line wrapper that validates a *)
(* research query and its date window, renders the window into a           *)
(* contextualized query, and drives GPTResearcher's two awaited steps      *)
(* (conduct_research, then write_report).                                  *)
(*                                                                         *)
(* Time is counted in whole hours since 1970-01-01T00:00 (UTC for          *)
(* instants, the local wall clock for aware datetimes).  A datetime is a   *)
(* record [wall, tz, off]: its wall-clock hour count, the name of its      *)
(* tzinfo, and its utcoffset in hours.  A rendered calendar date           *)
(* (strftime('%Y-%m-%d')) is the triple <<year, month, day>>.              *)
(***************************************************************************)
EXTENDS Integers, Sequences, FiniteSets, TLC

(***************************************************************************)
(* Calendar arithmetic of the datetime type (proleptic Gregorian).         *)
(***************************************************************************)

\* Days from 1970-01-01 to the civil date y-m-d (what fromisoformat computes
\* from the year, month and day fields of an ISO string).
days_from_civil(y, m, d) ==
    LET yy  == IF m <= 2 THEN y - 1 ELSE y
        era == yy \div 400
        yoe == yy - era * 400
        mp  == IF m > 2 THEN m - 3 ELSE m + 9
        doy == (153 * mp + 2) \div 5 + d - 1
        doe == yoe * 365 + yoe \div 4 - yoe \div 100 + doy
    IN  era * 146097 + doe - 719468

\* The civil date <<year, month, day>> of a day count (what strftime reads
\* back from a datetime).
civil_from_days(n) ==
    LET z   == n + 719468
        era == z \div 146097
        doe == z - era * 146097
        yoe == (doe - doe \div 1460 + doe \div 36524 - doe \div 146096) \div 365
        doy == doe - (365 * yoe + yoe \div 4 - yoe \div 100)
        mp  == (5 * doy + 2) \div 153
        d   == doy - (153 * mp + 2) \div 5 + 1
        m   == IF mp < 10 THEN mp + 3 ELSE mp - 9
        y   == yoe + era * 400
    IN  << IF m <= 2 THEN y + 1 ELSE y, m, d >>

\* Hour count of the wall-clock time y-m-d h:00.
HourOf(y, m, d, h) == days_from_civil(y, m, d) * 24 + h

(***************************************************************************)
(* ZoneInfo("America/New_York"): the US rule in force since 2007.  DST     *)
(* starts on the second Sunday of March at 02:00 EST (07:00 UTC) and ends  *)
(* on the first Sunday of November at 02:00 EDT (06:00 UTC).               *)
(***************************************************************************)

\* 0 = Sunday (1970-01-01 was a Thursday).
Weekday(n) == (n + 4) % 7

FirstSundayOnOrAfter(n) == n + ((7 - Weekday(n)) % 7)

DstStartDay(y) == FirstSundayOnOrAfter(days_from_civil(y, 3, 1)) + 7

DstEndDay(y) == FirstSundayOnOrAfter(days_from_civil(y, 11, 1))

YearOfHour(t) == civil_from_days(t \div 24)[1]

\* utcoffset of New York at the UTC instant u.
ETOffsetAtInstant(u) ==
    LET y == YearOfHour(u)
    IN  IF DstStartDay(y) * 24 + 7 <= u /\ u < DstEndDay(y) * 24 + 6
        THEN -4 ELSE -5

\* utcoffset of New York for the wall-clock time w with fold = 0 (a time in
\* the spring gap takes the offset before the transition, a repeated autumn
\* time its first occurrence).
ETOffsetAtWall(w) ==
    LET y == YearOfHour(w)
    IN  IF DstStartDay(y) * 24 + 3 <= w /\ w < DstEndDay(y) * 24 + 2
        THEN -4 ELSE -5

(***************************************************************************)
(* Aware datetimes and the operations main.py applies to them.             *)
(***************************************************************************)

DT(w, z, o) == [wall |-> w, tz |-> z, off |-> o]

\* Placeholder for a datetime variable that holds nothing yet.
NoDate == DT(0, "none", 0)

\* Python's a > b on aware datetimes: with one and the same tzinfo the
\* wall-clock fields are compared (tzinfo and fold ignored), otherwise the
\* UTC instants.
PyGreater(a, b) ==
    IF a.tz = b.tz THEN a.wall > b.wall
    ELSE a.wall - a.off > b.wall - b.off

\* Python's a < b on aware datetimes.
PyLess(a, b) == PyGreater(b, a)

\* dt.replace(tzinfo=ZoneInfo(z)): the wall-clock fields are kept.
replace_tzinfo(dt, z) ==
    DT(dt.wall, z, IF z = "ET" THEN ETOffsetAtWall(dt.wall) ELSE 0)

\* dt.astimezone(ZoneInfo("America/New_York")): the instant is kept.
astimezone_ET(dt) ==
    LET u == dt.wall - dt.off
        o == ETOffsetAtInstant(u)
    IN  DT(u + o, "ET", o)

\* dt - timedelta(hours=n): wall-clock arithmetic within dt's zone.
minus_hours(dt, n) ==
    DT(dt.wall - n, dt.tz, IF dt.tz = "ET" THEN ETOffsetAtWall(dt.wall - n) ELSE dt.off)

\* dt.strftime('%Y-%m-%d'): the calendar date of the wall clock.
strftime(dt) == civil_from_days(dt.wall \div 24)

(***************************************************************************)
(* Date values as they arrive in a request: an ISO-8601 string (its date   *)
(* and hour fields and its zone suffix), a string that is not ISO-8601, a  *)
(* JSON number (unix time, given by the UTC fields it denotes), or absent. *)
(***************************************************************************)

Iso(y, m, d, h, sfx) == [kind |-> "iso", y |-> y, m |-> m, d |-> d, h |-> h, sfx |-> sfx]

Num(y, m, d, h) == [kind |-> "num", y |-> y, m |-> m, d |-> d, h |-> h, sfx |-> ""]

Text == [kind |-> "text", y |-> 0, m |-> 0, d |-> 0, h |-> 0, sfx |-> ""]

Absent == [kind |-> "absent", y |-> 0, m |-> 0, d |-> 0, h |-> 0, sfx |-> ""]

\* The utcoffset a zone suffix denotes.
SuffixOffset(sfx) ==
    CASE sfx = "-05:00" -> -5
      [] sfx = "-04:00" -> -4
      [] OTHER -> 0

\* The zone suffix isoformat() writes for a utcoffset.
OffsetSuffix(o) ==
    CASE o = -5 -> "-05:00"
      [] o = -4 -> "-04:00"
      [] OTHER -> "+00:00"

\* value.rstrip('Z')
rstrip_Z(value) == IF value.sfx = "Z" THEN [value EXCEPT !.sfx = ""] ELSE value

\* datetime.fromisoformat(s): naive without a suffix, else aware with the
\* fixed offset the suffix denotes.
fromisoformat(s) ==
    DT(HourOf(s.y, s.m, s.d, s.h),
       IF s.sfx = "" THEN "naive" ELSE "fixed",
       SuffixOffset(s.sfx))

\* v.isoformat(), the json encoder of Query.Config.
isoformat(v) ==
    LET c == civil_from_days(v.wall \div 24)
    IN  Iso(c[1], c[2], c[3], v.wall % 24, OffsetSuffix(v.off))

\* Query.parse_date on an ISO string: the fields are read as UTC, whatever
\* the suffix says, and converted to New York time.
parse_date(value) ==
    astimezone_ET(replace_tzinfo(fromisoformat(rstrip_Z(value)), "UTC"))

\* datetime.now(ZoneInfo("America/New_York")) when the clock shows instant t.
now_ET(t) == astimezone_ET(DT(t, "UTC", 0))

\* Query.date_must_be_in_past passes v.
date_must_be_in_past(v, now) == ~ PyGreater(v, now)

\* Query.dates_must_be_within_range passes v.
dates_must_be_within_range(v, now) ==
    LET earliest_allowed == minus_hours(now, 365 * 10 * 24)
    IN  ~ PyLess(v, earliest_allowed)

\* Defect variant of QueryDate: a missing field defaults to the current time
\* (start_date: datetime = None, resolved to now).
QueryDate_default_now(raw, now) ==
    IF raw.kind = "absent" THEN [ok |-> TRUE, value |-> now]
    ELSE IF raw.kind = "text" THEN [ok |-> FALSE, value |-> NoDate]
    ELSE LET v == IF raw.kind = "iso" THEN parse_date(raw)
                  ELSE DT(HourOf(raw.y, raw.m, raw.d, raw.h), "UTC", 0)
         IN  [ok |-> date_must_be_in_past(v, now) /\ dates_must_be_within_range(v, now),
              value |-> v]

\* One date field of Query through its validators: [ok, value].  A missing
\* field and a non-ISO string are validation errors; a JSON number passes
\* parse_date untouched and becomes a UTC datetime.
QueryDate(raw, now) ==
    IF raw.kind \in {"absent", "text"} THEN [ok |-> FALSE, value |-> NoDate]
    ELSE LET v == IF raw.kind = "iso" THEN parse_date(raw)
                  ELSE DT(HourOf(raw.y, raw.m, raw.d, raw.h), "UTC", 0)
         IN  [ok |-> date_must_be_in_past(v, now) /\ dates_must_be_within_range(v, now),
              value |-> v]

\* The type= conversion of --start_date / --end_date in run_terminal:
\* [ok, value].  zOk says whether this interpreter's fromisoformat accepts a
\* trailing "Z" (3.11 and later do).
ArgDate(raw, zOk) ==
    IF raw.kind # "iso" \/ (raw.sfx = "Z" /\ ~ zOk)
    THEN [ok |-> FALSE, value |-> NoDate]
    ELSE [ok |-> TRUE, value |-> replace_tzinfo(fromisoformat(raw), "ET")]

\* The date loop of research_direct and run_terminal passes date.
DateInRange(date, now) ==
    /\ ~ PyGreater(date, now)
    /\ ~ PyLess(date, minus_hours(now, 365 * 10 * 24))

(***************************************************************************)
(* fetch_report up to the construction of the collaborator.                *)
(***************************************************************************)

\* Defect variant of ordered: the comparison is dropped and the pair is used
\* as given.
ordered_as_given(start_date, end_date) == << start_date, end_date >>

\* Lines 73-75: the pair (start_date, end_date) fetch_report goes on with.
ordered(start_date, end_date) ==
    IF PyGreater(start_date, end_date)
    THEN << end_date, start_date >>
    ELSE << start_date, end_date >>

\* Lines 77-79: (start_date_str, end_date_str).
date_strs(start_date, end_date) ==
    LET o == ordered(start_date, end_date)
    IN  << strftime(o[1]), strftime(o[2]) >>

\* Lines 81-85: the date restriction (its window) prepended to the query.
contextualized_query(window, query) == [window |-> window, query |-> query]

\* Lines 87-91: the GPTResearcher that fetch_report constructs from its five
\* parameters, before any of its steps has run.
GPTResearcher(query, report_type, sources, start_date, end_date) ==
    [constructed   |-> TRUE,
     query         |-> contextualized_query(date_strs(start_date, end_date), query),
     report_type   |-> report_type,
     config_path   |-> "None",
     conduct       |-> "new",
     write         |-> "new",
     conduct_calls |-> 0,
     write_calls   |-> 0]

\* No collaborator exists (yet) for the request.
NoResearcher ==
    [constructed   |-> FALSE,
     query         |-> contextualized_query(<< >>, ""),
     report_type   |-> "",
     config_path   |-> "None",
     conduct       |-> "new",
     write         |-> "new",
     conduct_calls |-> 0,
     write_calls   |-> 0]

\* Lines 96-98: the report with the date-range note appended.
with_note(text, window) == [text |-> text, note |-> window]

NoReport == [text |-> "", note |-> << >>]

(***************************************************************************)
(* The bearer-token check.                                                 *)
(***************************************************************************)

\* os.getenv("API_KEY"): None when the variable is unset.
EnvKey(isSet, value) == [set |-> isSet, value |-> value]

\* Defect variant of KeyMatches: an unset API_KEY lets every token through
\* (if API_KEY and credentials != API_KEY).
KeyMatches_open_when_unset(credentials, key) ==
    (~ key.set) \/ key.value = credentials

\* Line 106 negated: credentials.credentials == API_KEY.  None equals no
\* string.
KeyMatches(credentials, key) == key.set /\ key.value = credentials

(***************************************************************************)
(* Inputs and bounds.                                                      *)
(***************************************************************************)

\* How many hours the clock may advance during a run.
MaxTicks == 2

\* The clock at the start of a run: 2026-11-02T17:00Z, noon in New York.
Clock0 == HourOf(2026, 11, 2, 17)

Tokens == {"k1", "K1", "None"}

Keys == { EnvKey(FALSE, ""), EnvKey(TRUE, "k1") }

Queries == {"state of AI funding"}

ReportTypes == {"research_report"}

SourceLists == { << >>, << "https://a.example" >> }

ReportTexts == {"report"}

\* Date values a JSON body may carry.  Relative to Clock0: two dates of
\* early 2024, a date-only string, an instant one hour ahead of the clock,
\* the instant exactly 3650 days before noon, a re-serialized datetime, and
\* a string and a number that name instants one hour apart.
JsonDates ==
    { Iso(2024, 1, 1, 0, "Z"), Iso(2024, 3, 31, 0, "Z"), Iso(2024, 6, 1, 0, ""),
      Iso(2026, 11, 2, 18, "Z"), Iso(2016, 11, 4, 16, "Z"),
      Iso(2023, 12, 31, 19, "-05:00"), Iso(2024, 1, 2, 2, "Z"),
      Num(2024, 1, 2, 1), Text, Absent }

\* Date values a query parameter or a command-line argument may carry:
\* always text.
ArgDates == { r \in JsonDates : r.kind # "num" }

(***************************************************************************)
(* State.                                                                  *)
(***************************************************************************)

VARIABLES
    API_KEY,     \* the module-level API_KEY
    clock,       \* the system clock, in hours (UTC)
    pc,          \* where the one request in progress stands
    req,         \* the request as received
    start_date,  \* the handler's start_date (query.start_date)
    end_date,    \* the handler's end_date (query.end_date)
    start_time,  \* fetch_report's start_time
    window,      \* fetch_report's (start_date_str, end_date_str)
    researcher,  \* fetch_report's researcher and what has been awaited on it
    resp         \* the outcome sent back (HTTP response or process exit)

vars == << API_KEY, clock, pc, req, start_date, end_date, start_time, window,
           researcher, resp >>

NoReq ==
    [surface |-> "none", token |-> "", query |-> "", report_type |-> "",
     sources |-> << >>, start_date |-> Absent, end_date |-> Absent]

NoResp ==
    [status |-> "none", keys |-> {}, report |-> NoReport, start_date |-> NoDate,
     end_date |-> NoDate, execution_time |-> 0]

\* An outcome that carries no report: an error status with at most a detail.
ErrorResp(status, keys) ==
    [status |-> status, keys |-> keys, report |-> NoReport, start_date |-> NoDate,
     end_date |-> NoDate, execution_time |-> 0]

HTTP == {"research", "research_direct"}

Init ==
    /\ API_KEY \in Keys
    /\ clock = Clock0
    /\ pc = "idle"
    /\ req = NoReq
    /\ start_date = NoDate
    /\ end_date = NoDate
    /\ start_time = 0
    /\ window = << >>
    /\ researcher = NoResearcher
    /\ resp = NoResp

(***************************************************************************)
(* Outcomes.                                                               *)
(***************************************************************************)

\* Defect variant of research_response: the dates are returned in the order
\* fetch_report rendered them (its swap leaks to the caller).
research_response_swapped(report, sd, ed, execution_time) ==
    [status |-> "200", keys |-> {"report", "start_date", "end_date", "execution_time"},
     report |-> report, start_date |-> ordered(sd, ed)[1], end_date |-> ordered(sd, ed)[2],
     execution_time |-> execution_time]

\* Lines 114 and 137: the dict both routes return.
research_response(report, sd, ed, execution_time) ==
    [status |-> "200", keys |-> {"report", "start_date", "end_date", "execution_time"},
     report |-> report, start_date |-> sd, end_date |-> ed,
     execution_time |-> execution_time]

\* Lines 170-171: what run_terminal prints before it exits normally.
terminal_output(report, execution_time) ==
    [status |-> "exit0", keys |-> {"report", "execution_time"},
     report |-> report, start_date |-> NoDate, end_date |-> NoDate,
     execution_time |-> execution_time]

\* An exception that leaves the handler unhandled: the server answers 500,
\* the command line ends with a traceback.
unhandled(surface) ==
    IF surface = "cli" THEN ErrorResp("traceback", {}) ELSE ErrorResp("500", {"detail"})

(***************************************************************************)
(* Actions.                                                                *)
(***************************************************************************)

\* A POST arrives with a bearer token.  /research carries a JSON body,
\* /research_direct query parameters.
ReceiveHTTP ==
    /\ pc = "idle"
    /\ \E surface \in HTTP, token \in Tokens, query \in Queries,
          report_type \in ReportTypes, sources \in SourceLists :
          \E sd \in (IF surface = "research" THEN JsonDates ELSE ArgDates),
             ed \in (IF surface = "research" THEN JsonDates ELSE ArgDates) :
             req' = [surface |-> surface, token |-> token, query |-> query,
                     report_type |-> report_type, sources |-> sources,
                     start_date |-> sd, end_date |-> ed]
    /\ pc' = "received"
    /\ UNCHANGED << API_KEY, clock, start_date, end_date, start_time, window,
                    researcher, resp >>

\* The program is started with arguments (line 174-175).
ReceiveCLI ==
    /\ pc = "idle"
    /\ \E query \in Queries, report_type \in ReportTypes, sources \in SourceLists,
          sd \in ArgDates, ed \in ArgDates :
          req' = [surface |-> "cli", token |-> "", query |-> query,
                  report_type |-> report_type, sources |-> sources,
                  start_date |-> sd, end_date |-> ed]
    /\ pc' = "received"
    /\ UNCHANGED << API_KEY, clock, start_date, end_date, start_time, window,
                    researcher, resp >>

\* verify_api_key, the dependency of both routes; it runs before the body
\* is validated and before the handler.
verify_api_key ==
    /\ pc = "received"
    /\ req.surface \in HTTP
    /\ IF KeyMatches(req.token, API_KEY)
       THEN /\ pc' = "authorized"
            /\ resp' = resp
       ELSE /\ pc' = "done"
            /\ resp' = ErrorResp("401", {"detail"})
    /\ UNCHANGED << API_KEY, clock, req, start_date, end_date, start_time, window,
                    researcher >>

\* fetch_report from its entry to its first await: the collaborator is
\* constructed and conduct_research is started.
fetch_report_begin(query, report_type, sources, sd, ed) ==
    /\ start_time' = clock
    /\ window' = date_strs(sd, ed)
    /\ researcher' = [GPTResearcher(query, report_type, sources, sd, ed)
                        EXCEPT !.conduct = "running", !.conduct_calls = 1]
    /\ pc' = "conduct_research"

\* The outcome is an error and fetch_report is never entered.
rejected(status) ==
    /\ pc' = "done"
    /\ resp' = ErrorResp(status, {"detail"})
    /\ UNCHANGED << start_date, end_date, start_time, window, researcher >>

\* POST /research: the body is validated into a Query, then the handler
\* runs into fetch_report.
research ==
    /\ pc = "authorized"
    /\ req.surface = "research"
    /\ LET now == now_ET(clock)
           s   == QueryDate(req.start_date, now)
           e   == QueryDate(req.end_date, now)
       IN  IF s.ok /\ e.ok
           THEN /\ start_date' = s.value
                /\ end_date' = e.value
                /\ resp' = resp
                /\ fetch_report_begin(req.query, req.report_type, req.sources,
                                      s.value, e.value)
           ELSE rejected("422")
    /\ UNCHANGED << API_KEY, clock, req >>

\* POST /research_direct: start_date and end_date are Depends(
\* get_current_time_et), one cached call per request, whatever the request
\* carries; then the date loop, then fetch_report.
research_direct ==
    /\ pc = "authorized"
    /\ req.surface = "research_direct"
    /\ LET get_current_time_et == now_ET(clock)
           now == now_ET(clock)
       IN  IF DateInRange(get_current_time_et, now)
           THEN /\ start_date' = get_current_time_et
                /\ end_date' = get_current_time_et
                /\ resp' = resp
                /\ fetch_report_begin(req.query, req.report_type, req.sources,
                                      get_current_time_et, get_current_time_et)
           ELSE rejected("400")
    /\ UNCHANGED << API_KEY, clock, req >>

\* run_terminal: both dates are required arguments (a usage error, exit 2,
\* without them or when their conversion fails), then the date loop (exit
\* 1), then fetch_report.
run_terminal ==
    /\ pc = "received"
    /\ req.surface = "cli"
    /\ \E zOk \in BOOLEAN :
          LET now == now_ET(clock)
              s   == ArgDate(req.start_date, zOk)
              e   == ArgDate(req.end_date, zOk)
          IN  IF ~ (s.ok /\ e.ok)
              THEN /\ pc' = "done"
                   /\ resp' = ErrorResp("exit2", {})
                   /\ UNCHANGED << start_date, end_date, start_time, window, researcher >>
              ELSE IF ~ (DateInRange(s.value, now) /\ DateInRange(e.value, now))
              THEN /\ pc' = "done"
                   /\ resp' = ErrorResp("exit1", {})
                   /\ UNCHANGED << start_date, end_date, start_time, window, researcher >>
              ELSE /\ start_date' = s.value
                   /\ end_date' = e.value
                   /\ resp' = resp
                   /\ fetch_report_begin(req.query, req.report_type, req.sources,
                                         s.value, e.value)
    /\ UNCHANGED << API_KEY, clock, req >>

\* conduct_research completes; fetch_report resumes and starts write_report.
conduct_research_returns ==
    /\ pc = "conduct_research"
    /\ researcher' = [researcher EXCEPT !.conduct = "returned", !.write = "running",
                                        !.write_calls = @ + 1]
    /\ pc' = "write_report"
    /\ UNCHANGED << API_KEY, clock, req, start_date, end_date, start_time, window, resp >>

\* Defect variant of conduct_research_raises: the exception is swallowed and
\* fetch_report goes on to write_report.
conduct_research_raises_then_writes ==
    /\ pc = "conduct_research"
    /\ researcher' = [researcher EXCEPT !.conduct = "raised", !.write = "running",
                                        !.write_calls = @ + 1]
    /\ pc' = "write_report"
    /\ UNCHANGED << API_KEY, clock, req, start_date, end_date, start_time, window, resp >>

\* Defect variant of conduct_research_raises: the exception is caught and a
\* fixed fallback report is answered with the timing.
conduct_research_raises_fallback ==
    /\ pc = "conduct_research"
    /\ researcher' = [researcher EXCEPT !.conduct = "raised"]
    /\ LET report == with_note("fallback", window)
           execution_time == clock - start_time
       IN  resp' = IF req.surface = "cli"
                   THEN terminal_output(report, execution_time)
                   ELSE research_response(report, start_date, end_date, execution_time)
    /\ pc' = "done"
    /\ UNCHANGED << API_KEY, clock, req, start_date, end_date, start_time, window >>

\* conduct_research raises: nothing in fetch_report or its callers catches
\* the exception.
conduct_research_raises ==
    /\ pc = "conduct_research"
    /\ researcher' = [researcher EXCEPT !.conduct = "raised"]
    /\ resp' = unhandled(req.surface)
    /\ pc' = "done"
    /\ UNCHANGED << API_KEY, clock, req, start_date, end_date, start_time, window >>

\* write_report returns the report text; fetch_report appends the note,
\* takes the time and returns, and the caller answers.
write_report_returns ==
    /\ pc = "write_report"
    /\ \E text \in ReportTexts :
          LET report == with_note(text, window)
              execution_time == clock - start_time
          IN  resp' = IF req.surface = "cli"
                      THEN terminal_output(report, execution_time)
                      ELSE research_response(report, start_date, end_date, execution_time)
    /\ researcher' = [researcher EXCEPT !.write = "returned"]
    /\ pc' = "done"
    /\ UNCHANGED << API_KEY, clock, req, start_date, end_date, start_time, window >>

\* write_report raises: unhandled as well.
write_report_raises ==
    /\ pc = "write_report"
    /\ researcher' = [researcher EXCEPT !.write = "raised"]
    /\ resp' = unhandled(req.surface)
    /\ pc' = "done"
    /\ UNCHANGED << API_KEY, clock, req, start_date, end_date, start_time, window >>

\* The outcome has been delivered; everything request-scoped is gone.
Finish ==
    /\ pc = "done"
    /\ pc' = "idle"
    /\ req' = NoReq
    /\ start_date' = NoDate
    /\ end_date' = NoDate
    /\ start_time' = 0
    /\ window' = << >>
    /\ researcher' = NoResearcher
    /\ resp' = NoResp
    /\ UNCHANGED << API_KEY, clock >>

\* An hour passes.
Tick ==
    /\ clock < Clock0 + MaxTicks
    /\ clock' = clock + 1
    /\ UNCHANGED << API_KEY, pc, req, start_date, end_date, start_time, window,
                    researcher, resp >>

Next ==
    \/ ReceiveHTTP
    \/ ReceiveCLI
    \/ verify_api_key
    \/ research
    \/ research_direct
    \/ run_terminal
    \/ conduct_research_returns
    \/ conduct_research_raises
    \/ write_report_returns
    \/ write_report_raises
    \/ Finish
    \/ Tick

Spec == Init /\ [][Next]_vars

(***************************************************************************)
(* Properties.                                                             *)
(***************************************************************************)

\* The datetime a JSON date value denotes once Query has parsed it.
Parsed(raw) ==
    IF raw.kind = "iso" THEN parse_date(raw)
    ELSE DT(HourOf(raw.y, raw.m, raw.d, raw.h), "UTC", 0)

\* The request has produced a report (HTTP 200 or a normal exit).
Answered == pc = "done" /\ resp.status \in {"200", "exit0"}

\* C1: whatever pair (start_date, end_date) fetch_report is called with, the
\* window in the contextualized query given to the collaborator, and in the
\* note appended to the report, names the earlier of the two first and the
\* later second: exchanged when start_date > end_date, as given otherwise.
C1_WindowOrdered ==
    researcher.constructed =>
        LET lo == IF PyGreater(start_date, end_date) THEN end_date ELSE start_date
            hi == IF PyGreater(start_date, end_date) THEN start_date ELSE end_date
        IN  /\ researcher.query.window = << strftime(lo), strftime(hi) >>
            /\ (Answered => resp.report.note = << strftime(lo), strftime(hi) >>)

\* A report was produced for a request whose start_date is after its
\* end_date, and the two render as different days.
C1_Witness ==
    /\ Answered
    /\ PyGreater(start_date, end_date)
    /\ strftime(start_date) # strftime(end_date)
    /\ resp.report.note = << strftime(end_date), strftime(start_date) >>

\* C2: on both routes a request whose bearer token is not exactly the
\* configured API_KEY (an unset API_KEY included) ends in 401 "Invalid API
\* Key" without report content, and the collaborator is neither constructed
\* nor is conduct_research or write_report invoked for it.
C2_BadTokenRejected ==
    (req.surface \in HTTP /\ ~ (API_KEY.set /\ API_KEY.value = req.token)) =>
        /\ pc \in {"received", "done"}
        /\ ~ researcher.constructed
        /\ researcher.conduct_calls = 0
        /\ researcher.write_calls = 0
        /\ (pc = "done" =>
                /\ resp.status = "401"
                /\ resp.keys = {"detail"}
                /\ resp.report = NoReport)

\* A request was answered 401 although API_KEY is unset.
C2_Witness ==
    /\ req.surface \in HTTP
    /\ ~ API_KEY.set
    /\ pc = "done"
    /\ resp.status = "401"

\* C9: within one request conduct_research is invoked at most once and
\* write_report at most once, write_report only after conduct_research has
\* returned, never both in flight, and a step that raised is not retried:
\* after conduct_research raises write_report is never invoked and the
\* exception leaves fetch_report.
C9_StepsSequential ==
    /\ researcher.conduct_calls <= 1
    /\ researcher.write_calls <= 1
    /\ (researcher.write_calls > 0 => researcher.conduct = "returned")
    /\ (researcher.write # "new" => researcher.conduct = "returned")
    /\ ~ (researcher.conduct = "running" /\ researcher.write = "running")
    /\ (researcher.conduct = "raised" =>
            /\ researcher.write = "new"
            /\ researcher.write_calls = 0
            /\ researcher.conduct_calls = 1
            /\ pc = "done"
            /\ resp.status \in {"500", "traceback"})
    /\ (researcher.write = "raised" =>
            /\ researcher.write_calls = 1
            /\ pc = "done"
            /\ resp.status \in {"500", "traceback"})

\* conduct_research raised and the request is over.
C9_Witness ==
    /\ researcher.conduct = "raised"
    /\ researcher.conduct_calls = 1
    /\ pc = "done"

\* C10: the start_date and end_date in the response of either route are the
\* request's validated values, untouched by fetch_report's swap: for a
\* request with start_date > end_date the response's start_date is later
\* than its end_date while the note in the report names the window in
\* ascending order.
C10_ResponseDatesUnswapped ==
    (pc = "done" /\ resp.status = "200") =>
        /\ (req.surface = "research" =>
               /\ resp.start_date = Parsed(req.start_date)
               /\ resp.end_date = Parsed(req.end_date)
               /\ (PyGreater(Parsed(req.start_date), Parsed(req.end_date)) =>
                      /\ PyGreater(resp.start_date, resp.end_date)
                      /\ resp.report.note =
                            << strftime(resp.end_date), strftime(resp.start_date) >>))
        /\ (req.surface = "research_direct" =>
               /\ resp.start_date = now_ET(start_time)
               /\ resp.end_date = now_ET(start_time))

\* /research answered a request whose start_date is after its end_date.
C10_Witness ==
    /\ pc = "done"
    /\ resp.status = "200"
    /\ req.surface = "research"
    /\ PyGreater(resp.start_date, resp.end_date)
    /\ strftime(resp.start_date) # strftime(resp.end_date)

\* The request carries neither start_date nor end_date.
NoDatesGiven == req.start_date = Absent /\ req.end_date = Absent

\* C4 as stated: when conduct_research raises, the process does not crash
\* and the request still completes with a response that holds a fallback
\* report and a numeric, non-negative execution_time.
C4_FallbackOnFailure ==
    (researcher.conduct = "raised" /\ pc = "done") =>
        /\ resp.status \in {"200", "exit0"}
        /\ {"report", "execution_time"} \subseteq resp.keys
        /\ resp.report # NoReport
        /\ resp.execution_time >= 0

\* C4 as amended: when conduct_research raises, the exception is handled
\* nowhere: the HTTP request ends as a 500 and the command line ends with a
\* traceback, and the outcome holds neither a report (fallback or other) nor
\* an execution_time.
C4_FailurePropagates ==
    researcher.conduct = "raised" =>
        /\ pc = "done"
        /\ resp.status = (IF req.surface = "cli" THEN "traceback" ELSE "500")
        /\ researcher.write_calls = 0
        /\ resp.keys \cap {"report", "execution_time"} = {}
        /\ resp.report = NoReport

\* conduct_research raised during an HTTP request, which ended as a 500.
C4_Witness ==
    /\ researcher.conduct = "raised"
    /\ req.surface \in HTTP
    /\ resp.status = "500"

GivenDateInRange(raw) ==
    raw.kind \in {"iso", "num"} =>
        DateInRange(IF req.surface = "cli" THEN ArgDate(raw, TRUE).value
                    ELSE Parsed(raw),
                    now_ET(start_time))

\* C3: on every surface the collaborator is constructed for a request only
\* if both its start_date and its end_date lie within [now - 10 years, now]
\* when they are validated; a request with a date in the future or older
\* than that is rejected and never reaches the collaborator.
C3_OutOfRangeNeverFetched ==
    researcher.constructed =>
        /\ GivenDateInRange(req.start_date)
        /\ GivenDateInRange(req.end_date)

\* C5: for an authorized POST /research whose dates are UTC timestamps
\* ("...Z"), the window given to the collaborator holds the calendar dates
\* exactly as the request writes them.
C5_DatesAsWritten ==
    (/\ req.surface = "research"
     /\ researcher.constructed
     /\ req.start_date.kind = "iso" /\ req.start_date.sfx = "Z"
     /\ req.end_date.kind = "iso" /\ req.end_date.sfx = "Z") =>
        { researcher.query.window[1], researcher.query.window[2] } =
        { << req.start_date.y, req.start_date.m, req.start_date.d >>,
          << req.end_date.y, req.end_date.m, req.end_date.d >> }

\* C7: for a UTC timestamp string s of a validated Query, parsing the
\* isoformat() of parse_date(s) again gives the same instant and the same
\* New York wall-clock time as parse_date(s).
C7_ReparseIsStable ==
    (/\ req.surface = "research"
     /\ researcher.constructed
     /\ req.start_date.kind = "iso" /\ req.start_date.sfx = "Z") =>
        LET again == parse_date(isoformat(start_date))
        IN  /\ again.wall - again.off = start_date.wall - start_date.off
            /\ again.wall = start_date.wall

\* C8: the sources of a request reach the collaborator: an accepted request
\* that differs from this one in nothing but its sources would hand the
\* collaborator different inputs.
C8_SourcesForwarded ==
    researcher.constructed =>
        \A other \in SourceLists \ {req.sources} :
            LET r == GPTResearcher(req.query, req.report_type, other,
                                   start_date, end_date)
            IN  << r.query, r.report_type, r.config_path >> #
                << researcher.query, researcher.report_type, researcher.config_path >>

====
